---- MODULE Spec2Model ----
(***************************************************************************)
(* Model of merge_ows.py: the one-word-substitution merge pipeline.        *)
(*                                                                         *)
(* Text is modelled as a sequence of one-character strings, so that        *)
(* str.lower, str.title, str.startswith, the `in` substring test,          *)
(* " ".join and str(int) are computed the way Python computes them.        *)
(* A JSON object (dict) is a TLA+ record/function whose DOMAIN is the set  *)
(* of keys present; a JSON array is a sequence.                            *)
(***************************************************************************)
EXTENDS Integers, Sequences, FiniteSets, TLC

VARIABLES
    fs,                 \* the input files: file name -> parsed content (or unreadable)
    pc,                 \* control location of the run
    fi,                 \* main: index into files_map of the file being processed
    final_data,         \* main: final_data
    global_id_counter,  \* main: global_id_counter
    output_file,        \* final_ows.json: the sequence of contents written to it
    filepath,           \* process_file: argument
    difficulty,         \* process_file: argument
    start_id,           \* process_file: argument
    data,               \* process_file: json.load(f)
    all_words,          \* process_file: flattened records
    k,                  \* process_file: position of the for loop in all_words
    processed_items,    \* process_file: processed_items
    current_id,         \* process_file: current_id
    ret,                \* process_file: the returned pair
    error,              \* the unhandled exception that ended the run, or "none"
    note_in,            \* generate_note: its arguments <<word, meaning, origin>>
    note_out,           \* generate_note: its result
    pos_in,             \* get_pos: its arguments <<word, sentence>>
    pos_out             \* get_pos: its result

vars == <<fs, pc, fi, final_data, global_id_counter, output_file, filepath,
          difficulty, start_id, data, all_words, k, processed_items,
          current_id, ret, error, note_in, note_out, pos_in, pos_out>>

mainVars == <<fs, pc, fi, final_data, global_id_counter, output_file, filepath,
              difficulty, start_id, data, all_words, k, processed_items,
              current_id, ret, error>>
noteVars == <<note_in, note_out>>
posVars == <<pos_in, pos_out>>

-----------------------------------------------------------------------------
(* Bounds of the model *)

\* longest list of records in one page or one flat list
MaxLen == 2
\* largest number of pages of a mapping input
MaxPages == 2
\* largest start_id process_file is called with on its own
MaxStartId == 2

-----------------------------------------------------------------------------
(* Python string operations, on sequences of characters *)

UpperCase == <<"A","B","C","D","E","F","G","H","I","J","K","L","M","N","O","P","Q","R","S","T","U","V","W","X","Y","Z">>
LowerCase == <<"a","b","c","d","e","f","g","h","i","j","k","l","m","n","o","p","q","r","s","t","u","v","w","x","y","z">>

IsUpper(c) == \E i \in 1..26 : UpperCase[i] = c
IsLower(c) == \E i \in 1..26 : LowerCase[i] = c
IsCased(c) == IsUpper(c) \/ IsLower(c)

LowerChar(c) == IF IsUpper(c) THEN LowerCase[CHOOSE i \in 1..26 : UpperCase[i] = c] ELSE c
UpperChar(c) == IF IsLower(c) THEN UpperCase[CHOOSE i \in 1..26 : LowerCase[i] = c] ELSE c

\* str.lower()
lower(s) == [i \in 1..Len(s) |-> LowerChar(s[i])]

\* str.title(): a cased character is upper-cased when it follows an uncased
\* one (or starts the string) and lower-cased otherwise
title(s) ==
    [i \in 1..Len(s) |->
        IF i = 1 \/ ~IsCased(s[i - 1]) THEN UpperChar(s[i]) ELSE LowerChar(s[i])]

\* str.startswith(prefix)
startswith(s, prefix) ==
    /\ Len(prefix) <= Len(s)
    /\ \A i \in 1..Len(prefix) : s[i] = prefix[i]

\* sub in s
Contains(s, sub) ==
    \E i \in 0..(Len(s) - Len(sub)) : \A j \in 1..Len(sub) : s[i + j] = sub[j]

\* sep.join(parts)
RECURSIVE join(_, _)
join(sep, parts) ==
    IF parts = <<>> THEN <<>>
    ELSE IF Len(parts) = 1 THEN parts[1]
    ELSE parts[1] \o sep \o join(sep, Tail(parts))

Digits == <<"0","1","2","3","4","5","6","7","8","9">>

\* str(n) for an integer n >= 0
RECURSIVE str(_)
str(n) == IF n < 10 THEN <<Digits[n + 1]>> ELSE str(n \div 10) \o <<Digits[(n % 10) + 1]>>

\* dict.get(key, default)
Get(item, key, default) == IF key \in DOMAIN item THEN item[key] ELSE default

-----------------------------------------------------------------------------
(* generate_note *)

F_phobia == <<"S","u","f","f","i","x"," ","'","-","p","h","o","b","i","a","'"," ","d","e","n","o","t","e","s"," ","a","n"," ","e","x","t","r","e","m","e"," ","o","r"," ","i","r","r","a","t","i","o","n","a","l"," ","f","e","a","r",".">>
F_cide == <<"S","u","f","f","i","x"," ","'","-","c","i","d","e","'"," ","r","e","f","e","r","s"," ","t","o"," ","t","h","e"," ","a","c","t"," ","o","f"," ","k","i","l","l","i","n","g"," ","(","e",".","g",".",","," ","s","u","i","c","i","d","e",","," ","h","o","m","i","c","i","d","e",")",".">>
F_cracy == <<"S","u","f","f","i","x","e","s"," ","l","i","k","e"," ","'","-","c","r","a","c","y","'"," ","o","r"," ","'","-","a","r","c","h","y","'"," ","t","y","p","i","c","a","l","l","y"," ","r","e","f","e","r"," ","t","o"," ","f","o","r","m","s"," ","o","f"," ","g","o","v","e","r","n","m","e","n","t"," ","o","r"," ","r","u","l","e",".">>
F_logy == <<"S","u","f","f","i","x"," ","'","-","l","o","g","y","'"," ","u","s","u","a","l","l","y"," ","m","e","a","n","s"," ","'","t","h","e"," ","s","t","u","d","y"," ","o","f","'",".">>
F_theos == <<"R","o","o","t"," ","'","t","h","e","o","s","'"," ","r","e","f","e","r","s"," ","t","o"," ","G","o","d",".">>
F_vorous == <<"S","u","f","f","i","x"," ","'","-","v","o","r","o","u","s","'"," ","i","n","d","i","c","a","t","e","s"," ","f","e","e","d","i","n","g"," ","h","a","b","i","t","s"," ","(","e",".","g",".",","," ","c","a","r","n","i","v","o","r","o","u","s",")",".">>
F_ambi == <<"P","r","e","f","i","x"," ","'","a","m","b","i","-","'"," ","m","e","a","n","s"," ","'","b","o","t","h","'"," ","o","r"," ","'","a","r","o","u","n","d","'",".">>
F_bene == <<"P","r","e","f","i","x"," ","'","b","e","n","e","-","'"," ","m","e","a","n","s"," ","'","g","o","o","d","'"," ","o","r"," ","'","w","e","l","l","'",".">>
F_mal == <<"P","r","e","f","i","x"," ","'","m","a","l","-","'"," ","t","y","p","i","c","a","l","l","y"," ","m","e","a","n","s"," ","'","b","a","d","'"," ","o","r"," ","'","e","v","i","l","'",".">>
F_somn == <<"R","o","o","t"," ","'","s","o","m","n","u","s","'"," ","r","e","l","a","t","e","s"," ","t","o"," ","s","l","e","e","p",".">>
F_bell == <<"R","o","o","t"," ","'","b","e","l","l","u","m","'"," ","m","e","a","n","s"," ","w","a","r",".">>
F_greg == <<"R","o","o","t"," ","'","g","r","e","x","'"," ","o","r"," ","'","g","r","e","g","-","'"," ","r","e","f","e","r","s"," ","t","o"," ","a"," ","f","l","o","c","k"," ","o","r"," ","h","e","r","d",".">>
F_greek == <<"T","h","i","s"," ","t","e","r","m"," ","h","a","s"," ","i","t","s"," ","r","o","o","t","s"," ","i","n"," ","G","r","e","e","k"," ","m","y","t","h","o","l","o","g","y"," ","o","r"," ","l","a","n","g","u","a","g","e",".">>
F_latin == <<"D","e","r","i","v","e","d"," ","f","r","o","m"," ","L","a","t","i","n",".">>
F_medical == <<"O","f","t","e","n"," ","u","s","e","d"," ","i","n"," ","m","e","d","i","c","a","l"," ","c","o","n","t","e","x","t","s",".">>
F_legal == <<"F","r","e","q","u","e","n","t","l","y"," ","u","s","e","d"," ","i","n"," ","l","e","g","a","l"," ","t","e","r","m","i","n","o","l","o","g","y",".">>
F_egoist == <<"D","o","n","'","t"," ","c","o","n","f","u","s","e"," ","w","i","t","h"," ","'","e","g","o","t","i","s","t","'"," ","(","s","o","m","e","o","n","e"," ","w","h","o"," ","t","a","l","k","s"," ","e","x","c","e","s","s","i","v","e","l","y"," ","a","b","o","u","t"," ","t","h","e","m","s","e","l","v","e","s",")",".">>
F_immigrant == <<"C","o","m","p","a","r","e"," ","w","i","t","h"," ","'","e","m","i","g","r","a","n","t","'"," ","(","o","n","e"," ","w","h","o"," ","l","e","a","v","e","s"," ","a"," ","c","o","u","n","t","r","y",")",".">>
F_emigrant == <<"C","o","m","p","a","r","e"," ","w","i","t","h"," ","'","i","m","m","i","g","r","a","n","t","'"," ","(","o","n","e"," ","w","h","o"," ","e","n","t","e","r","s"," ","a"," ","c","o","u","n","t","r","y",")",".">>
F_stationary == <<"N","o","t"," ","t","o"," ","b","e"," ","c","o","n","f","u","s","e","d"," ","w","i","t","h"," ","'","s","t","a","t","i","o","n","e","r","y","'"," ","(","w","r","i","t","i","n","g"," ","m","a","t","e","r","i","a","l","s",")",".">>
F_stationery == <<"N","o","t"," ","t","o"," ","b","e"," ","c","o","n","f","u","s","e","d"," ","w","i","t","h"," ","'","s","t","a","t","i","o","n","a","r","y","'"," ","(","n","o","t"," ","m","o","v","i","n","g",")",".">>

\* `if cond: note_parts.append(fragment)`
AppendIf(cond, fragment) == IF cond THEN <<fragment>> ELSE <<>>

\* the origin rule: `if "Greek" in origin_lower: ... elif "Latin" in origin_lower: ...`
OriginParts(origin_lower) ==
    IF Contains(origin_lower, <<"G","r","e","e","k">>) THEN <<F_greek>>
    ELSE IF Contains(origin_lower, <<"L","a","t","i","n">>) THEN <<F_latin>>
    ELSE <<>>

note_parts(word, meaning, origin) ==
    LET word_lower == lower(word)
        meaning_lower == lower(meaning)
        origin_lower == IF origin # <<>> THEN lower(origin) ELSE <<>>
    IN  AppendIf(Contains(word_lower, <<"p","h","o","b","i","a">>), F_phobia)
        \o AppendIf(Contains(word_lower, <<"c","i","d","e">>), F_cide)
        \o AppendIf(Contains(word_lower, <<"c","r","a","c","y">>) \/ Contains(word_lower, <<"a","r","c","h">>), F_cracy)
        \o AppendIf(Contains(word_lower, <<"l","o","g","y">>), F_logy)
        \o AppendIf(Contains(word_lower, <<"t","h","e","i","s","t">>) \/ Contains(word_lower, <<"t","h","e","i","s","m">>), F_theos)
        \o AppendIf(Contains(word_lower, <<"v","o","r","o","u","s">>), F_vorous)
        \o AppendIf(Contains(word_lower, <<"a","m","b","i">>), F_ambi)
        \o AppendIf(Contains(word_lower, <<"b","e","n","e">>), F_bene)
        \o AppendIf(Contains(word_lower, <<"m","a","l">>) /\ ~startswith(word_lower, <<"m","a","l","e">>), F_mal)
        \o AppendIf(Contains(word_lower, <<"s","o","m","n">>), F_somn)
        \o AppendIf(Contains(word_lower, <<"b","e","l","l">>) /\ Contains(meaning_lower, <<"w","a","r">>), F_bell)
        \o AppendIf(Contains(word_lower, <<"g","r","e","g">>), F_greg)
        \o OriginParts(origin_lower)
        \o AppendIf(\/ Contains(meaning_lower, <<"m","e","d",".">>)
                    \/ Contains(meaning_lower, <<"m","e","d","i","c","i","n","e">>)
                    \/ Contains(meaning_lower, <<"d","i","s","e","a","s","e">>), F_medical)
        \o AppendIf(Contains(meaning_lower, <<"l","a","w">>) \/ Contains(meaning_lower, <<"l","e","g","a","l">>), F_legal)
        \o AppendIf(word_lower = <<"e","g","o","i","s","t">>, F_egoist)
        \o AppendIf(word_lower = <<"i","m","m","i","g","r","a","n","t">>, F_immigrant)
        \o AppendIf(word_lower = <<"e","m","i","g","r","a","n","t">>, F_emigrant)
        \o AppendIf(Contains(word_lower, <<"s","t","a","t","i","o","n","a","r","y">>), F_stationary)
        \o AppendIf(Contains(word_lower, <<"s","t","a","t","i","o","n","e","r","y">>), F_stationery)

generate_note(word, meaning, origin) ==
    LET parts == note_parts(word, meaning, origin)
    IN  IF parts # <<>> THEN join(<<" ">>, parts) ELSE <<>>

-----------------------------------------------------------------------------
(* The tagging capability (spaCy) and get_pos *)

\* Splits a text into its tokens at the spaces.
RECURSIVE Tokens(_, _)
Tokens(text, acc) ==
    IF text = <<>> THEN (IF acc = <<>> THEN <<>> ELSE <<acc>>)
    ELSE IF Head(text) = " "
         THEN (IF acc = <<>> THEN <<>> ELSE <<acc>>) \o Tokens(Tail(text), <<>>)
         ELSE Tokens(Tail(text), Append(acc, Head(text)))

\* What the tagger knows: for a token text, its lemma and coarse tag inside a
\* sentence (lemma_, pos_) and when it is the whole text (iso_lemma, iso_pos).
Lexicon ==
    { [text |-> <<"I">>,         lemma_ |-> <<"I">>,    pos_ |-> <<"P","R","O","N">>,  iso_lemma |-> <<"I">>,    iso_pos |-> <<"P","R","O","N">>],
      [text |-> <<"a","m">>,        lemma_ |-> <<"b","e">>,   pos_ |-> <<"A","U","X">>,   iso_lemma |-> <<"b","e">>,   iso_pos |-> <<"A","U","X">>],
      [text |-> <<"T","h","e">>,       lemma_ |-> <<"t","h","e">>,  pos_ |-> <<"D","E","T">>,   iso_lemma |-> <<"t","h","e">>,  iso_pos |-> <<"D","E","T">>],
      [text |-> <<"r","u","n","n","i","n","g">>,   lemma_ |-> <<"r","u","n">>,  pos_ |-> <<"V","E","R","B">>,  iso_lemma |-> <<"r","u","n">>,  iso_pos |-> <<"V","E","R","B">>],
      [text |-> <<"r","u","n">>,       lemma_ |-> <<"r","u","n">>,  pos_ |-> <<"N","O","U","N">>,  iso_lemma |-> <<"r","u","n">>,  iso_pos |-> <<"V","E","R","B">>],
      [text |-> <<"R","u","n">>,       lemma_ |-> <<"R","u","n">>,  pos_ |-> <<"P","R","O","P","N">>, iso_lemma |-> <<"r","u","n">>,  iso_pos |-> <<"V","E","R","B">>],
      [text |-> <<"f","a","s","t">>,      lemma_ |-> <<"f","a","s","t">>, pos_ |-> <<"A","D","V">>,   iso_lemma |-> <<"f","a","s","t">>, iso_pos |-> <<"A","D","J">>],
      [text |-> <<"b","e","t","t","e","r">>,    lemma_ |-> <<"g","o","o","d">>, pos_ |-> <<"A","D","J">>,   iso_lemma |-> <<"w","e","l","l">>, iso_pos |-> <<"A","D","V">>],
      [text |-> <<"b","l","u","e">>,      lemma_ |-> <<"b","l","u","e">>, pos_ |-> <<"A","D","J">>,   iso_lemma |-> <<"b","l","u","e">>, iso_pos |-> <<"A","D","J">>],
      [text |-> <<"O","u","c","h">>,      lemma_ |-> <<"o","u","c","h">>, pos_ |-> <<"I","N","T","J">>,  iso_lemma |-> <<"o","u","c","h">>, iso_pos |-> <<"I","N","T","J">>],
      [text |-> <<"a","m","b","i","t","i","o","u","s">>, lemma_ |-> <<"a","m","b","i","t","i","o","u","s">>, pos_ |-> <<"A","D","J">>, iso_lemma |-> <<"a","m","b","i","t","i","o","u","s">>, iso_pos |-> <<"A","D","J">>] }

\* One token of a tagged text; a token the lexicon does not know is a noun
\* whose lemma is its lower-cased text.
Token(text, alone) ==
    IF \E e \in Lexicon : e.text = text
    THEN LET e == CHOOSE e \in Lexicon : e.text = text
         IN  [text |-> text,
              lemma_ |-> IF alone THEN e.iso_lemma ELSE e.lemma_,
              pos_ |-> IF alone THEN e.iso_pos ELSE e.pos_]
    ELSE [text |-> text, lemma_ |-> lower(text), pos_ |-> <<"N","O","U","N">>]

\* nlp(text): the tagged tokens of the text; the empty text has no tokens
nlp(text) ==
    LET toks == Tokens(text, <<>>)
    IN  [i \in 1..Len(toks) |-> Token(toks[i], Len(toks) = 1)]

\* the outcome of a call: a returned value or a raised exception
Return(v) == [ok |-> TRUE, value |-> v]
Raise(exc) == [ok |-> FALSE, exc |-> exc]

\* doc[0].pos_, which raises IndexError on a Doc without tokens
FirstPos(doc) == IF doc = <<>> THEN Raise("IndexError") ELSE Return(doc[1].pos_)

\* `token.lemma_.lower() == target_lemma or token.text.lower() == word.lower()`
TokenMatches(token, word, target_lemma) ==
    lower(token.lemma_) = target_lemma \/ lower(token.text) = lower(word)

\* ScanTokens with the scan keeping the last matching token instead of the first
ScanTokensLast(doc, i, word, target_lemma) ==
    LET M == {j \in i..Len(doc) : TokenMatches(doc[j], word, target_lemma)}
    IN  IF M = {} THEN FirstPos(nlp(word))
        ELSE Return(doc[CHOOSE j \in M : \A m \in M : m <= j].pos_)

\* `for token in doc: if <matches>: return token.pos_`, from position i on;
\* after the loop, `return nlp(word)[0].pos_`
RECURSIVE ScanTokens(_, _, _, _)
ScanTokens(doc, i, word, target_lemma) ==
    IF i > Len(doc) THEN FirstPos(nlp(word))
    ELSE IF TokenMatches(doc[i], word, target_lemma) THEN Return(doc[i].pos_)
    ELSE ScanTokens(doc, i + 1, word, target_lemma)

get_pos(word, sentence) ==
    IF sentence = <<>> THEN FirstPos(nlp(word))
    ELSE LET doc == nlp(sentence)
             wdoc == nlp(word)
         IN  IF wdoc = <<>> THEN Raise("IndexError")
             ELSE ScanTokens(doc, 1, word, lower(wdoc[1].lemma_))

\* `pos_map.get(pos, pos.title())`
pos_map(pos) ==
    CASE pos = <<"N","O","U","N">> -> <<"N","o","u","n">>
      [] pos = <<"V","E","R","B">> -> <<"V","e","r","b">>
      [] pos = <<"A","D","J">> -> <<"A","d","j","e","c","t","i","v","e">>
      [] pos = <<"A","D","V">> -> <<"A","d","v","e","r","b">>
      [] pos = <<"P","R","O","P","N">> -> <<"P","r","o","p","e","r"," ","N","o","u","n">>
      [] pos = <<"P","R","O","N">> -> <<"P","r","o","n","o","u","n">>
      [] OTHER -> title(pos)

-----------------------------------------------------------------------------
(* Inputs: word records and parsed file contents *)

r_ambitious ==
    [word |-> <<"a","m","b","i","t","i","o","u","s">>, meaning_en |-> <<"h","a","v","i","n","g"," ","s","t","r","o","n","g"," ","d","e","s","i","r","e">>, origin |-> <<"L","a","t","i","n">>]
r_egoist ==
    [word |-> <<"E","g","o","i","s","t">>, meaning_en |-> <<"S","e","l","f"," ","c","e","n","t","r","e","d"," ","p","e","r","s","o","n">>, meaning_hi |-> <<"x">>,
     usage_sentences |-> <<<<"T","h","e"," ","e","g","o","i","s","t">>>>, origin |-> <<"G","r","e","e","k","/","L","a","t","i","n"," ","h","y","b","r","i","d">>]
r_run ==
    [word |-> <<"r","u","n">>, meaning_en |-> <<"l","e","g","a","l">>, meaning_hi |-> <<>>,
     usage_sentences |-> <<<<"I"," ","a","m"," ","r","u","n","n","i","n","g"," ","f","a","s","t">>, <<"T","h","e"," ","r","u","n">>>>, origin |-> <<>>]
r_ouch ==
    [word |-> <<"O","u","c","h">>, usage_sentences |-> <<>>]
r_noword ==
    [meaning_en |-> <<"d","i","s","e","a","s","e">>]

\* the records of the files of a whole run
MainPool == {r_ambitious, r_run, r_noword}
\* the records of a file process_file is called on
RecordPool == {r_ambitious, r_egoist, r_run, r_ouch, r_noword}

\* the sequences of at most n elements of S
SeqsUpTo(S, n) == UNION {[1..m -> S] : m \in 0..n}

\* parsed JSON: an array, an object (its members in iteration order), or a
\* scalar; a file that cannot be opened or parsed has no parsed content
JList(items) == [kind |-> "list", items |-> items]
JDict(pages) == [kind |-> "dict", pages |-> pages]
JScalar == [kind |-> "scalar"]
NoFile == [kind |-> "FileNotFoundError"]
BadJson == [kind |-> "JSONDecodeError"]
NoData == [kind |-> "none"]

\* the values a page of a mapping holds
PageValues ==
    {JList(<<r_egoist, r_run>>), JList(<<r_ouch>>), JList(<<>>), JScalar, JList(<<r_noword>>)}

FileContents ==
    {JList(l) : l \in SeqsUpTo(RecordPool, MaxLen)}
    \cup {JDict(p) : p \in SeqsUpTo(PageValues, MaxPages)}
    \cup {JScalar, NoFile, BadJson}

MainContents ==
    {JList(l) : l \in SeqsUpTo(MainPool, MaxLen)}
    \cup {JDict(<<>>), JDict(<<JList(<<r_ambitious>>), JScalar, JList(<<r_ambitious>>)>>),
          JScalar, NoFile, BadJson}

-----------------------------------------------------------------------------
(* process_file *)

\* ExtendPages with `all_words = items` in place of `all_words.extend(items)`
RECURSIVE ExtendPagesOverwrite(_)
ExtendPagesOverwrite(pages) ==
    IF pages = <<>> THEN <<>>
    ELSE IF pages[Len(pages)].kind = "list" THEN pages[Len(pages)].items
    ELSE ExtendPagesOverwrite(SubSeq(pages, 1, Len(pages) - 1))

\* `for page_num, items in data.items(): if isinstance(items, list): all_words.extend(items)`
RECURSIVE ExtendPages(_)
ExtendPages(pages) ==
    IF pages = <<>> THEN <<>>
    ELSE (IF Head(pages).kind = "list" THEN Head(pages).items ELSE <<>>)
         \o ExtendPages(Tail(pages))

\* the flattening of the parsed content
Flatten(d) ==
    IF d.kind = "dict" THEN ExtendPages(d.pages)
    ELSE IF d.kind = "list" THEN d.items
    ELSE <<>>

ExamYear == 2025

\* new_item
NewItem(item, id, diff, pos) ==
    LET word == Get(item, "word", <<>>)
        meaning == Get(item, "meaning_en", <<>>)
        usage_sentences == Get(item, "usage_sentences", <<>>)
        origin == Get(item, "origin", <<>>)
    IN  [id |-> str(id),
         sourceInfo |-> [pdfName |-> "Blackbook", examYear |-> ExamYear],
         properties |-> [difficulty |-> diff, status |-> "Active"],
         content |-> [id |-> id,
                      pos |-> pos,
                      word |-> word,
                      meaning_en |-> meaning,
                      meaning_hi |-> Get(item, "meaning_hi", <<>>),
                      usage_sentences |-> usage_sentences,
                      note |-> generate_note(word, meaning, origin),
                      origin |-> origin]]

\* `pos = get_pos(word, first_sentence)` for a record
ItemPos(item) ==
    LET usage_sentences == Get(item, "usage_sentences", <<>>)
        first_sentence == IF usage_sentences # <<>> THEN usage_sentences[1] ELSE <<>>
    IN  get_pos(Get(item, "word", <<>>), first_sentence)

Readable(d) == d.kind \in {"list", "dict", "scalar"}

\* `with open(filepath) as f: data = json.load(f)`
PFOpen ==
    /\ pc = "pf_open"
    /\ Readable(fs[filepath])
    /\ data' = fs[filepath]
    /\ pc' = "pf_flatten"
    /\ UNCHANGED <<fs, fi, final_data, global_id_counter, output_file, filepath,
                   difficulty, start_id, all_words, k, processed_items,
                   current_id, ret, error, noteVars, posVars>>

\* open or json.load raises: nothing catches it and the run ends
PFOpenRaise ==
    /\ pc = "pf_open"
    /\ ~Readable(fs[filepath])
    /\ error' = fs[filepath].kind
    /\ pc' = "aborted"
    /\ UNCHANGED <<fs, fi, final_data, global_id_counter, output_file, filepath,
                   difficulty, start_id, data, all_words, k, processed_items,
                   current_id, ret, noteVars, posVars>>

\* PFFlatten with the ids of every file starting at 1
PFFlattenFromOne ==
    /\ pc = "pf_flatten"
    /\ processed_items' = <<>>
    /\ current_id' = 1
    /\ all_words' = Flatten(data)
    /\ k' = 1
    /\ pc' = "pf_loop"
    /\ UNCHANGED <<fs, fi, final_data, global_id_counter, output_file, filepath,
                   difficulty, start_id, data, ret, error, noteVars, posVars>>

\* processed_items = [], current_id = start_id, and the flattening
PFFlatten ==
    /\ pc = "pf_flatten"
    /\ processed_items' = <<>>
    /\ current_id' = start_id
    /\ all_words' = Flatten(data)
    /\ k' = 1
    /\ pc' = "pf_loop"
    /\ UNCHANGED <<fs, fi, final_data, global_id_counter, output_file, filepath,
                   difficulty, start_id, data, ret, error, noteVars, posVars>>

\* one iteration of `for item in all_words`
PFItem ==
    /\ pc = "pf_loop"
    /\ k <= Len(all_words)
    /\ ItemPos(all_words[k]).ok
    /\ processed_items' =
           Append(processed_items,
                  NewItem(all_words[k], current_id, difficulty,
                          pos_map(ItemPos(all_words[k]).value)))
    /\ current_id' = current_id + 1
    /\ k' = k + 1
    /\ UNCHANGED <<fs, pc, fi, final_data, global_id_counter, output_file, filepath,
                   difficulty, start_id, data, all_words, ret, error, noteVars,
                   posVars>>

\* an iteration in which get_pos raises: nothing catches it and the run ends
PFItemRaise ==
    /\ pc = "pf_loop"
    /\ k <= Len(all_words)
    /\ ~ItemPos(all_words[k]).ok
    /\ error' = ItemPos(all_words[k]).exc
    /\ pc' = "aborted"
    /\ UNCHANGED <<fs, fi, final_data, global_id_counter, output_file, filepath,
                   difficulty, start_id, data, all_words, k, processed_items,
                   current_id, ret, noteVars, posVars>>

\* `return processed_items, current_id`
PFReturn ==
    /\ pc = "pf_loop"
    /\ k > Len(all_words)
    /\ ret' = <<processed_items, current_id>>
    /\ pc' = "pf_returned"
    /\ UNCHANGED <<fs, fi, final_data, global_id_counter, output_file, filepath,
                   difficulty, start_id, data, all_words, k, processed_items,
                   current_id, error, noteVars, posVars>>

-----------------------------------------------------------------------------
(* main *)

\* files_map with the moderate and the hard file in the other order
files_map_swapped ==
    << <<"easy-ows.json", "Easy">>,
       <<"hard-ows.json", "Hard">>,
       <<"moderate-ows.json", "Medium">> >>

files_map ==
    << <<"easy-ows.json", "Easy">>,
       <<"moderate-ows.json", "Medium">>,
       <<"hard-ows.json", "Hard">> >>

FileNames == {files_map[i][1] : i \in 1..Len(files_map)}

\* `items, next_id = process_file(filepath, difficulty, global_id_counter)`: the call
MainCall ==
    /\ pc = "main"
    /\ fi <= Len(files_map)
    /\ filepath' = files_map[fi][1]
    /\ difficulty' = files_map[fi][2]
    /\ start_id' = global_id_counter
    /\ data' = NoData
    /\ all_words' = <<>>
    /\ k' = 1
    /\ processed_items' = <<>>
    /\ current_id' = global_id_counter
    /\ ret' = <<>>
    /\ pc' = "pf_open"
    /\ UNCHANGED <<fs, fi, final_data, global_id_counter, output_file, error,
                   noteVars, posVars>>

\* MainExtend without `global_id_counter = next_id`
MainExtendNoCounter ==
    /\ pc = "pf_returned"
    /\ fi \in 1..Len(files_map)
    /\ final_data' = final_data \o ret[1]
    /\ fi' = fi + 1
    /\ pc' = "main"
    /\ UNCHANGED <<fs, global_id_counter, output_file, filepath, difficulty, start_id,
                   data, all_words, k, processed_items, current_id, ret, error,
                   noteVars, posVars>>

\* MainExtend with the output file rewritten after every input file
MainExtendWriting ==
    /\ pc = "pf_returned"
    /\ fi \in 1..Len(files_map)
    /\ final_data' = final_data \o ret[1]
    /\ global_id_counter' = ret[2]
    /\ fi' = fi + 1
    /\ pc' = "main"
    /\ output_file' = <<final_data'>>
    /\ UNCHANGED <<fs, filepath, difficulty, start_id, data, all_words, k,
                   processed_items, current_id, ret, error, noteVars, posVars>>

\* `final_data.extend(items); global_id_counter = next_id`, and the next file
MainExtend ==
    /\ pc = "pf_returned"
    /\ fi \in 1..Len(files_map)
    /\ final_data' = final_data \o ret[1]
    /\ global_id_counter' = ret[2]
    /\ fi' = fi + 1
    /\ pc' = "main"
    /\ UNCHANGED <<fs, output_file, filepath, difficulty, start_id, data, all_words,
                   k, processed_items, current_id, ret, error, noteVars, posVars>>

\* after the loop: `json.dump(final_data, f, ...)` into final_ows.json
MainWrite ==
    /\ pc = "main"
    /\ fi > Len(files_map)
    /\ output_file' = Append(output_file, final_data)
    /\ pc' = "done"
    /\ UNCHANGED <<fs, fi, final_data, global_id_counter, filepath, difficulty,
                   start_id, data, all_words, k, processed_items, current_id, ret,
                   error, noteVars, posVars>>

-----------------------------------------------------------------------------
(* Specifications *)

NoteIdle == note_in = <<>> /\ note_out = [done |-> FALSE]
PosIdle == pos_in = <<>> /\ pos_out = [done |-> FALSE]

MainIdle ==
    /\ fs = [f \in FileNames |-> JList(<<>>)]
    /\ pc = "idle"
    /\ fi = 0
    /\ final_data = <<>>
    /\ global_id_counter = 1
    /\ output_file = <<>>
    /\ filepath = ""
    /\ difficulty = ""
    /\ start_id = 1
    /\ data = NoData
    /\ all_words = <<>>
    /\ k = 1
    /\ processed_items = <<>>
    /\ current_id = 1
    /\ ret = <<>>
    /\ error = "none"

\* A run of main() over the three input files.
Init ==
    /\ fs \in [FileNames -> MainContents]
    /\ pc = "main"
    /\ fi = 1
    /\ final_data = <<>>
    /\ global_id_counter = 1
    /\ output_file = <<>>
    /\ filepath = ""
    /\ difficulty = ""
    /\ start_id = 1
    /\ data = NoData
    /\ all_words = <<>>
    /\ k = 1
    /\ processed_items = <<>>
    /\ current_id = 1
    /\ ret = <<>>
    /\ error = "none"
    /\ NoteIdle
    /\ PosIdle

Next ==
    \/ MainCall
    \/ PFOpen
    \/ PFOpenRaise
    \/ PFFlatten
    \/ PFItem
    \/ PFItemRaise
    \/ PFReturn
    \/ MainExtend
    \/ MainWrite

Spec == Init /\ [][Next]_vars

\* One call process_file(filepath, difficulty, start_id) on any file content.
InitFile ==
    /\ \E i \in 1..Len(files_map) :
          /\ filepath = files_map[i][1]
          /\ difficulty = files_map[i][2]
    /\ \E c \in FileContents :
          fs = [f \in FileNames |-> IF f = filepath THEN c ELSE JList(<<>>)]
    /\ start_id \in 1..MaxStartId
    /\ pc = "pf_open"
    /\ fi = 0
    /\ final_data = <<>>
    /\ global_id_counter = 1
    /\ output_file = <<>>
    /\ data = NoData
    /\ all_words = <<>>
    /\ k = 1
    /\ processed_items = <<>>
    /\ current_id = 1
    /\ ret = <<>>
    /\ error = "none"
    /\ NoteIdle
    /\ PosIdle

NextFile ==
    \/ PFOpen
    \/ PFOpenRaise
    \/ PFFlatten
    \/ PFItem
    \/ PFItemRaise
    \/ PFReturn

SpecFile == InitFile /\ [][NextFile]_vars

\* Calls generate_note(word, meaning, origin) on their own.
NoteWords ==
    {<<"a","m","b","i","t","i","o","u","s">>, <<"E","G","O","I","S","T">>, <<"M","a","l","a","d","y">>, <<"M","a","l","e","v","o","l","e","n","t">>, <<"B","e","l","l","i","c","o","s","e">>, <<"A","r","c","h","a","e","o","l","o","g","y">>,
     <<"s","t","a","t","i","o","n","e","r","y">>, <<>>}
NoteMeanings ==
    {<<"h","a","v","i","n","g"," ","s","t","r","o","n","g"," ","d","e","s","i","r","e">>, <<"F","o","n","d"," ","o","f"," ","W","A","R">>, <<"A"," ","D","i","s","e","a","s","e",";"," ","l","e","g","a","l">>, <<>>}
NoteOrigins ==
    {<<"L","a","t","i","n">>, <<"G","r","e","e","k","/","L","a","t","i","n"," ","h","y","b","r","i","d">>, <<"g","r","e","e","k">>, <<"L","A","T","I","N">>, <<"O","l","d"," ","E","n","g","l","i","s","h">>, <<>>}

InitNote ==
    /\ note_in \in NoteWords \X NoteMeanings \X NoteOrigins
    /\ note_out = [done |-> FALSE]
    /\ MainIdle
    /\ PosIdle

NoteCall ==
    /\ note_in # <<>>
    /\ ~note_out.done
    /\ note_out' = [done |-> TRUE, note |-> generate_note(note_in[1], note_in[2], note_in[3])]
    /\ UNCHANGED <<mainVars, note_in, posVars>>

NextNote == NoteCall

SpecNote == InitNote /\ [][NextNote]_vars

\* Calls get_pos(word, sentence) on their own.
PosWords ==
    {<<"r","u","n">>, <<"R","U","N">>, <<"r","u","n","n","i","n","g">>, <<"b","e","t","t","e","r">>, <<"b","l","u","e">>, <<"O","u","c","h">>, <<"f","a","s","t">>, <<>>}
PosSentences ==
    {<<>>, <<"I"," ","a","m"," ","r","u","n","n","i","n","g"," ","f","a","s","t">>, <<"T","h","e"," ","r","u","n"," ","a","m"," ","r","u","n","n","i","n","g">>, <<"r","u","n","n","i","n","g"," ","T","h","e"," ","r","u","n">>,
     <<"I"," ","a","m"," ","b","e","t","t","e","r">>, <<"R","u","n"," ","f","a","s","t">>, <<"T","h","e"," ","B","l","u","e">>, <<"I"," ","a","m">>}

InitPos ==
    /\ pos_in \in PosWords \X PosSentences
    /\ pos_out = [done |-> FALSE]
    /\ MainIdle
    /\ NoteIdle

PosCall ==
    /\ pos_in # <<>>
    /\ ~pos_out.done
    /\ pos_out' = [done |-> TRUE, result |-> get_pos(pos_in[1], pos_in[2])]
    /\ UNCHANGED <<mainVars, noteVars, pos_in>>

NextPos == PosCall

SpecPos == InitPos /\ [][NextPos]_vars

-----------------------------------------------------------------------------
(* Properties *)

\* the text in upper case
upper(s) == [i \in 1..Len(s) |-> UpperChar(s[i])]

\* the integer a decimal string denotes
DigitValue(c) == (CHOOSE i \in 1..10 : Digits[i] = c) - 1
RECURSIVE ParseInt(_)
ParseInt(s) ==
    IF s = <<>> THEN 0
    ELSE 10 * ParseInt(SubSeq(s, 1, Len(s) - 1)) + DigitValue(s[Len(s)])

\* sub occurs in s right after its first i characters
OccursAt(s, sub, i) ==
    /\ i + Len(sub) <= Len(s)
    /\ \A j \in 1..Len(sub) : s[i + j] = sub[j]

\* s holds a, and after that occurrence of a holds b
FollowedBy(s, a, b) ==
    \E i \in 0..Len(s) : \E j \in 0..Len(s) :
        OccursAt(s, a, i) /\ OccursAt(s, b, j) /\ i + Len(a) <= j

\* the number of records of an input file
NEasy == Len(Flatten(fs["easy-ows.json"]))
NModerate == Len(Flatten(fs["moderate-ows.json"]))
NHard == Len(Flatten(fs["hard-ows.json"]))

\* C1: the ids of the output are 1, 2, ..., n in order, as integer and as
\* decimal string, and when main() has completed n is the sum of the three
\* files' flattened record counts.
C1_ContiguousIds ==
    /\ \A i \in 1..Len(final_data) :
          /\ final_data[i].content.id = i
          /\ ParseInt(final_data[i].id) = i
    /\ pc = "done" =>
          /\ output_file = <<final_data>>
          /\ Len(output_file[1]) = NEasy + NModerate + NHard
          /\ \A i \in 1..Len(output_file[1]) : output_file[1][i].content.id = i

C1_Witness ==
    /\ pc = "done"
    /\ NEasy >= 1 /\ NModerate >= 1 /\ NHard >= 1
    /\ Len(output_file[1]) >= 4

\* C2: whenever origin contains "Greek", the note holds the Greek-origin
\* fragment and not the Latin-origin fragment.
C2_GreekExclusive ==
    (note_out.done /\ Contains(note_in[3], <<"G","r","e","e","k">>)) =>
        /\ Contains(note_out.note, F_greek)
        /\ ~Contains(note_out.note, F_latin)

\* C3: with the one record {ambitious, having strong desire, Latin} in
\* easy-ows.json and no record in the other two files, the output is one entry
\* with id "1", difficulty "Easy" and a note holding the 'ambi-' fragment
\* followed by the Latin-origin fragment.
C3_EndToEnd ==
    (/\ pc = "done"
     /\ fs["easy-ows.json"] = JList(<<r_ambitious>>)
     /\ NModerate = 0
     /\ NHard = 0) =>
        /\ Len(output_file) = 1
        /\ Len(output_file[1]) = 1
        /\ output_file[1][1].id = <<"1">>
        /\ output_file[1][1].properties.difficulty = "Easy"
        /\ FollowedBy(output_file[1][1].content.note, F_ambi, F_latin)

\* the rule set of the note generator: condition and fragment, in rule order,
\* the conditions taken on the lower-cased inputs
RuleSet(w, m, o) ==
    << <<Contains(w, <<"p","h","o","b","i","a">>), F_phobia>>,
       <<Contains(w, <<"c","i","d","e">>), F_cide>>,
       <<Contains(w, <<"c","r","a","c","y">>) \/ Contains(w, <<"a","r","c","h">>), F_cracy>>,
       <<Contains(w, <<"l","o","g","y">>), F_logy>>,
       <<Contains(w, <<"t","h","e","i","s","t">>) \/ Contains(w, <<"t","h","e","i","s","m">>), F_theos>>,
       <<Contains(w, <<"v","o","r","o","u","s">>), F_vorous>>,
       <<Contains(w, <<"a","m","b","i">>), F_ambi>>,
       <<Contains(w, <<"b","e","n","e">>), F_bene>>,
       <<Contains(w, <<"m","a","l">>) /\ ~startswith(w, <<"m","a","l","e">>), F_mal>>,
       <<Contains(w, <<"s","o","m","n">>), F_somn>>,
       <<Contains(w, <<"b","e","l","l">>) /\ Contains(m, <<"w","a","r">>), F_bell>>,
       <<Contains(w, <<"g","r","e","g">>), F_greg>>,
       <<Contains(o, <<"g","r","e","e","k">>), F_greek>>,
       <<~Contains(o, <<"g","r","e","e","k">>) /\ Contains(o, <<"l","a","t","i","n">>), F_latin>>,
       <<Contains(m, <<"m","e","d",".">>) \/ Contains(m, <<"m","e","d","i","c","i","n","e">>) \/ Contains(m, <<"d","i","s","e","a","s","e">>), F_medical>>,
       <<Contains(m, <<"l","a","w">>) \/ Contains(m, <<"l","e","g","a","l">>), F_legal>>,
       <<w = <<"e","g","o","i","s","t">>, F_egoist>>,
       <<w = <<"i","m","m","i","g","r","a","n","t">>, F_immigrant>>,
       <<w = <<"e","m","i","g","r","a","n","t">>, F_emigrant>>,
       <<Contains(w, <<"s","t","a","t","i","o","n","a","r","y">>), F_stationary>>,
       <<Contains(w, <<"s","t","a","t","i","o","n","e","r","y">>), F_stationery>> >>

RuleFired(rule) == rule[1]

RuleSetNote(word, meaning, origin) ==
    LET fired == SelectSeq(RuleSet(lower(word), lower(meaning), lower(origin)), RuleFired)
    IN  join(<<" ">>, [i \in 1..Len(fired) |-> fired[i][2]])

\* C4: the note is the fragments of the rules whose condition holds on the
\* lower-cased inputs, each once, in rule order, joined by single spaces
\* (empty when none holds), and it does not depend on the inputs' letter case.
C4_RuleSet ==
    note_out.done =>
        /\ note_out.note = RuleSetNote(note_in[1], note_in[2], note_in[3])
        /\ generate_note(upper(note_in[1]), upper(note_in[2]), upper(note_in[3]))
              = note_out.note
        /\ generate_note(lower(note_in[1]), lower(note_in[2]), lower(note_in[3]))
              = note_out.note

\* the number of records in the list pages among the first n pages
ListLen(page) == IF page.kind = "list" THEN Len(page.items) ELSE 0
RECURSIVE SumLens(_, _)
SumLens(pages, n) == IF n = 0 THEN 0 ELSE SumLens(pages, n - 1) + ListLen(pages[n])

\* w is the concatenation of the lists under the keys, in iteration order
IsConcatOfPages(w, pages) ==
    /\ Len(w) = SumLens(pages, Len(pages))
    /\ \A p \in 1..Len(pages) :
          pages[p].kind = "list" =>
              \A j \in 1..Len(pages[p].items) :
                  w[SumLens(pages, p - 1) + j] = pages[p].items[j]

\* the entry made from the record: the record's fields, a missing one empty
EntryOf(entry, item) ==
    /\ entry.content.word = Get(item, "word", <<>>)
    /\ entry.content.meaning_en = Get(item, "meaning_en", <<>>)
    /\ entry.content.meaning_hi = Get(item, "meaning_hi", <<>>)
    /\ entry.content.usage_sentences = Get(item, "usage_sentences", <<>>)
    /\ entry.content.origin = Get(item, "origin", <<>>)

\* C5: the flattened sequence of a mapping is the concatenation of the lists
\* under its keys in iteration order, of a flat list the list itself, of
\* anything else empty; the entries returned are one per record, in that order.
C5_FlattenOrder ==
    /\ pc \in {"pf_loop", "pf_returned"} =>
          /\ fs[filepath].kind = "dict" => IsConcatOfPages(all_words, fs[filepath].pages)
          /\ fs[filepath].kind = "list" => all_words = fs[filepath].items
          /\ fs[filepath].kind \notin {"dict", "list"} => all_words = <<>>
    /\ pc = "pf_returned" =>
          /\ Len(ret[1]) = Len(all_words)
          /\ \A i \in 1..Len(all_words) : EntryOf(ret[1][i], all_words[i])

C5_Witness ==
    /\ pc = "pf_returned"
    /\ fs[filepath] = JDict(<<JList(<<r_egoist, r_run>>), JList(<<r_ouch>>)>>)
    /\ all_words = <<r_egoist, r_run, r_ouch>>
    /\ Len(ret[1]) = 3

\* C6: a record without "word" or "meaning_en" does not end the run: it gets
\* an entry with the empty string in the field's place.
C6_MissingFieldsDefault ==
    /\ ~(/\ pc = "aborted"
         /\ k <= Len(all_words)
         /\ {"word", "meaning_en"} \ DOMAIN all_words[k] # {})
    /\ \A i \in 1..Len(processed_items) : EntryOf(processed_items[i], all_words[i])

\* C7: the output file is written at most once, only when all three files
\* have been processed without an exception, and then with all of final_data;
\* a run that an exception ended has written nothing.
C7_WriteOnceAfterAll ==
    /\ Len(output_file) <= 1
    /\ output_file # <<>> =>
          /\ pc = "done"
          /\ fi > 3
          /\ error = "none"
          /\ output_file[1] = final_data
          /\ Len(final_data) = NEasy + NModerate + NHard
    /\ pc = "aborted" => output_file = <<>>

C7_Witness ==
    /\ pc = "aborted"
    /\ fi = 3
    /\ error = "IndexError"
    /\ final_data # <<>>
    /\ processed_items # <<>>
    /\ output_file = <<>>

\* the tokens of the sentence that match the word, as the resolver matches
MatchingTokens(word, sentence) ==
    LET doc == nlp(sentence)
        wdoc == nlp(word)
    IN  {i \in 1..Len(doc) :
            \/ wdoc # <<>> /\ lower(doc[i].lemma_) = lower(wdoc[1].lemma_)
            \/ lower(doc[i].text) = lower(word)}

\* the tag of the word tagged in isolation
IsolatedTag(word) == FirstPos(nlp(word))

\* C8: get_pos gives the tag of the word in isolation when the sentence is
\* empty or no token of it matches, and otherwise the tag of the leftmost
\* matching token.
C8_FirstMatch ==
    pos_out.done =>
        LET word == pos_in[1]
            sentence == pos_in[2]
            M == MatchingTokens(word, sentence)
        IN  IF sentence = <<>> \/ M = {}
            THEN pos_out.result = IsolatedTag(word)
            ELSE /\ pos_out.result.ok
                 /\ pos_out.result.value =
                        nlp(sentence)[CHOOSE i \in M : \A j \in M : i <= j].pos_

C8_Witness ==
    /\ pos_out.done
    /\ pos_in[2] # <<>>
    /\ \E i \in MatchingTokens(pos_in[1], pos_in[2]) :
       \E j \in MatchingTokens(pos_in[1], pos_in[2]) :
          /\ i < j
          /\ nlp(pos_in[2])[i].pos_ # nlp(pos_in[2])[j].pos_
          /\ nlp(pos_in[2])[i].pos_ # IsolatedTag(pos_in[1]).value

\* C9: the entries of easy-ows.json come first and are "Easy", those of
\* moderate-ows.json next and "Medium", those of hard-ows.json last and
\* "Hard", every one "Active"; each file contributes its records once.
C9_DifficultyOrder ==
    /\ \A i \in 1..Len(final_data) :
          LET e == final_data[i]
          IN  /\ e.properties.status = "Active"
              /\ i <= NEasy + NModerate + NHard
              /\ i <= NEasy =>
                    /\ e.properties.difficulty = "Easy"
                    /\ EntryOf(e, Flatten(fs["easy-ows.json"])[i])
              /\ (NEasy < i /\ i <= NEasy + NModerate) =>
                    /\ e.properties.difficulty = "Medium"
                    /\ EntryOf(e, Flatten(fs["moderate-ows.json"])[i - NEasy])
              /\ NEasy + NModerate < i =>
                    /\ e.properties.difficulty = "Hard"
                    /\ EntryOf(e, Flatten(fs["hard-ows.json"])[i - NEasy - NModerate])
    /\ pc = "done" => Len(final_data) = NEasy + NModerate + NHard

C9_Witness ==
    /\ pc = "done"
    /\ NEasy >= 1 /\ NModerate >= 1 /\ NHard >= 1
    /\ Flatten(fs["moderate-ows.json"]) # Flatten(fs["hard-ows.json"])

\* content without a record: nothing, an empty list, or a mapping without a
\* record in any list
ZeroRecords(d) ==
    \/ d.kind = "scalar"
    \/ d.kind = "list" /\ d.items = <<>>
    \/ d.kind = "dict" /\ \A p \in 1..Len(d.pages) : ListLen(d.pages[p]) = 0

\* C10: process_file gives the k flattened records the ids start_id,
\* start_id + 1, ..., start_id + k - 1 in order, the string id being the
\* decimal of the integer id, and returns start_id + k, which no entry has;
\* without records it returns no entry and start_id.
C10_FileIds ==
    /\ pc = "pf_loop" => current_id = start_id + Len(processed_items)
    /\ pc = "pf_returned" =>
          /\ Len(ret[1]) = Len(all_words)
          /\ \A i \in 1..Len(ret[1]) :
                /\ ret[1][i].content.id = start_id + i - 1
                /\ ParseInt(ret[1][i].id) = ret[1][i].content.id
                /\ ret[1][i].content.id # ret[2]
          /\ ret[2] = start_id + Len(all_words)
          /\ ZeroRecords(fs[filepath]) => ret = <<<<>>, start_id>>

C10_Witness ==
    /\ pc = "pf_returned"
    /\ start_id = 2
    /\ Len(ret[1]) = 2
    /\ ret[2] = 4

====
